---- MODULE Spec2Model ----
(***************************************************************************)
(* Model of src/wsgi.py: a Flask gateway with four protected POST          *)
(* endpoints (/pdf, /xlsx, /zip, /multiple) that render HTML to PDF,       *)
(* convert spreadsheets through unoconv, and pack PDFs into a zip archive. *)
(* The working directory is shared by every request the server handles     *)
(* at the same time; /xlsx and /zip use it as scratch space, so their      *)
(* handlers are modelled step by step at each filesystem access.           *)
(***************************************************************************)
EXTENDS Integers, Sequences, FiniteSets, TLC

VARIABLES
    secret,   \* os.environ['X_API_KEY'] of the server process (Unset if absent)
    fs,       \* working directory: file name -> file value (Absent if none)
    pc,       \* per request: position of the thread handling it
    req,      \* per request: what the client sent
    ran,      \* per request: the handler body (f in checkauth) was entered
    loc,      \* per request: locals of the handler (index, archive, pdf, rc)
    resp      \* per request: the response returned

vars == <<secret, fs, pc, req, ran, loc, resp>>

\* ------------------------------------------------------------- bounds
\* Longest list (htmls, filenames, user_passwords) a request carries.
MaxItems == 2

\* The requests the server handles at the same time.
Req == {"r1", "r2"}

\* ------------------------------------------------------------- values
Unset == "<unset>"          \* os.environ.get(...) -> None
NoHeader == "<no header>"   \* 'X_API_KEY' not in request.headers
None == "<None>"            \* Python None for an optional string
JSON == "application/json"

Keys == {"k1"}
Headers == {NoHeader, "k1", "k2"}

\* Raw HTML documents and the number of pages each renders to.
Htmls == {"h1", "h2"}
PageCount(h) == IF h = "h2" THEN 2 ELSE 1

\* Spreadsheet contents.
Sheets == {"s1", "s2"}

\* Scratch names a /zip caller may supply (relative, normalised names).
FileNames == {"a.pdf", "b.pdf"}
XlsxIn == "input.xlsx"
XlsxOut == "input.pdf"
Files == FileNames \cup {XlsxIn, XlsxOut}

\* File values.
Absent == [kind |-> "absent"]
Empty == [kind |-> "bytes", data |-> ""]
Bytes(d) == [kind |-> "bytes", data |-> d]
NoBody == [kind |-> "none"]

\* ------------------------------------------------------------- helpers
SeqsUpTo(S, n) == UNION {[1..k -> S] : k \in 0..n}

RECURSIVE Flatten(_)
Flatten(ss) == IF ss = <<>> THEN <<>> ELSE Head(ss) \o Flatten(Tail(ss))

\* base64.b64decode: the encodings of the model's payloads, and a string of
\* one data character, which raises binascii.Error.
B64Valid(s) == s \in {"aDE=", "aDI=", "Yw==", "czE=", "czI="}
B64Decode(s) ==
    CASE s = "aDE=" -> "h1"
      [] s = "aDI=" -> "h2"
      [] s = "Yw==" -> "c"
      [] s = "czE=" -> "s1"
      [] s = "czI=" -> "s2"
      [] OTHER -> ""
BadB64 == "a"

\* `if user_password:` -- None and the empty string are falsy.
Truthy(p) == p # None /\ p # ""

\* dict.get(key) -> None when the key is absent.
Get(body, key) == IF key \in body.keys THEN body[key] ELSE None

\* HTML(string=...).render(): the pages of one document, in order.
Render(h) == [i \in 1..PageCount(h) |-> <<h, i>>]

\* write_pdf: an unencrypted PDF of the given pages.
Pdf(pages) == [kind |-> "pdf", pages |-> pages, user |-> None, owner |-> None]

\* PdfFileWriter.appendPagesFromReader + encrypt(user_pwd, owner_pwd=...):
\* every page is copied; owner_pwd None defaults to the user password.
EncryptPdf(pdf, user, owner) ==
    [kind |-> "pdf", pages |-> pdf.pages, user |-> user,
     owner |-> IF owner = None THEN user ELSE owner]

Protected(f) == f.kind = "pdf" /\ f.user # None

\* Responses.
Abort401 == [status |-> 401, ctype |-> "text/html", body |-> NoBody]
Error500 == [status |-> 500, ctype |-> "text/html", body |-> NoBody]
Ok(ctype, body) == [status |-> 200, ctype |-> ctype, body |-> body]
NoResp == [status |-> 0, ctype |-> "", body |-> NoBody]

\* ------------------------------------------------------------- guard
\* checkauth: run the handler when the header is absent or equals the
\* configured secret; os.environ.get gives None when no secret is set, and
\* None equals no header value.
\* (variant: an unset secret switches the guard off)
CheckAuthUnsetAllowsAll(sec, hdr) ==
    hdr = NoHeader \/ sec = Unset \/ sec = hdr

CheckAuth(sec, hdr) == hdr = NoHeader \/ (sec # Unset /\ sec = hdr)

\* ------------------------------------------------------------- requests
\* A request: endpoint, X_API_KEY header, declared Content-Type and body.
\* A JSON object body is its set of keys and their values; shape says
\* whether the body is unparsable ("malformed"), a JSON object ("object"),
\* a top-level JSON list ("list") or raw markup ("raw").
Request(e, h, ct, b) == [endpoint |-> e, header |-> h, ctype |-> ct, body |-> b]
NoReq == Request("", NoHeader, "", [shape |-> "none", keys |-> {}])

PwdPairs ==
    {<<{}, "", "">>, <<{"user_password"}, "", "">>,
     <<{"user_password"}, "u", "">>,
     <<{"user_password", "owner_password"}, "u", "o">>,
     <<{"owner_password"}, "", "o">>}

PdfBody(shape, ks, h, c, up, op) ==
    [shape |-> shape, keys |-> ks, html |-> h, css |-> c,
     user_password |-> up, owner_password |-> op]

PdfInputs ==
    {<<"text/html", PdfBody("raw", {}, h, "", "", "")>> : h \in Htmls}
    \cup {<<JSON, PdfBody("malformed", {}, "", "", "", "")>>}
    \cup {<<JSON, PdfBody("object", {"css"}, "", "Yw==", "", "")>>,
          <<JSON, PdfBody("object", {"html"}, "aDE=", "", "", "")>>,
          <<JSON, PdfBody("object", {"html", "css"}, BadB64, "Yw==", "", "")>>}
    \cup {<<JSON, PdfBody("object", {"html", "css"} \cup p[1], h, "Yw==", p[2], p[3])>> :
            h \in {"aDE=", "aDI="}, p \in PwdPairs}

MultipleBody(shape, ks, hs, up, op) ==
    [shape |-> shape, keys |-> ks, htmls |-> hs,
     user_password |-> up, owner_password |-> op]

MultipleInputs ==
    {<<JSON, MultipleBody("malformed", {}, <<>>, "", "")>>,
     <<JSON, MultipleBody("object", {}, <<>>, "", "")>>}
    \cup {<<JSON, MultipleBody("list", {}, hs, "", "")>> : hs \in SeqsUpTo(Htmls, MaxItems)}
    \cup {<<JSON, MultipleBody("object", {"htmls"} \cup p[1], hs, p[2], p[3])>> :
            hs \in SeqsUpTo(Htmls, MaxItems), p \in PwdPairs}

\* ------------------------------------------------------------- /pdf
\* The shared tail of generate and multiple: `if user_password:` re-open the
\* PDF, copy its pages and encrypt.
MaybeEncrypt(pdf, user, owner) ==
    IF Truthy(user) THEN EncryptPdf(pdf, user, owner) ELSE pdf

\* generate(): the response, or the 500 Flask makes of an uncaught exception.
\* With a Content-Type other than application/json the local `pdf` is never
\* assigned and make_response(pdf) raises UnboundLocalError.
GenerateResponse(ct, body) ==
    IF ct # JSON THEN Error500
    ELSE IF body.shape # "object" THEN Error500
    ELSE IF "html" \notin body.keys \/ ~B64Valid(body.html) THEN Error500
    ELSE IF "css" \notin body.keys \/ ~B64Valid(body.css) THEN Error500
    ELSE Ok("application/pdf",
            MaybeEncrypt(Pdf(Render(B64Decode(body.html))),
                         Get(body, "user_password"), Get(body, "owner_password")))

\* ------------------------------------------------------------- /multiple
\* multiple(): data['htmls'] on a top-level list raises TypeError, on an
\* object without the key KeyError; documents[0] on an empty list IndexError.
MultipleResponse(body) ==
    IF body.shape # "object" THEN Error500
    ELSE IF "htmls" \notin body.keys THEN Error500
    ELSE IF body.htmls = <<>> THEN Error500
    ELSE Ok("application/pdf",
            MaybeEncrypt(Pdf(Flatten([i \in 1..Len(body.htmls) |-> Render(body.htmls[i])])),
                         Get(body, "user_password"), Get(body, "owner_password")))

\* ------------------------------------------------------------- /xlsx
XlsxBody(shape, ks, x, up) ==
    [shape |-> shape, keys |-> ks, xlsx |-> x, user_password |-> up]

XlsxInputs ==
    {<<"text/html", XlsxBody("raw", {}, "", "")>>,
     <<JSON, XlsxBody("malformed", {}, "", "")>>,
     <<JSON, XlsxBody("object", {}, "", "")>>,
     <<JSON, XlsxBody("object", {"xlsx"}, BadB64, "")>>}
    \cup {<<JSON, XlsxBody("object", {"xlsx"}, x, "")>> : x \in {"czE=", "czI="}}
    \cup {<<JSON, XlsxBody("object", {"xlsx", "user_password"}, x, up)>> :
            x \in {"czE=", "czI="}, up \in {"", "u"}}

\* unoconv -f pdf [--export=EncryptFile=true --export=DocumentOpenPassword=pw]
\* input.xlsx: the PDF of the sheet now in input.xlsx, one page.
Converted(sheet, up) ==
    [kind |-> "pdf", pages |-> <<<<sheet, 1>>>>,
     user |-> IF Truthy(up) THEN up ELSE None, owner |-> None]

\* ------------------------------------------------------------- /zip
ZipBody(shape, ks, hs, c, fns, ups, ops) ==
    [shape |-> shape, keys |-> ks, htmls |-> hs, css |-> c, filenames |-> fns,
     user_passwords |-> ups, owner_passwords |-> ops]

ZipKeys == {"htmls", "css", "filenames"}

NoPwds == <<{}, <<>>, <<>>>>

PwdLists ==
    {NoPwds,
     <<{"user_passwords"}, <<"u">>, <<>>>>,
     <<{"user_passwords", "owner_passwords"}, <<"", "u">>, <<"o">>>>}

\* htmls for n filenames: n copies of one document; and, without passwords,
\* a list one shorter, a list one longer, and a list whose last string is
\* not base64.
ZipLists(n) ==
    {<<[i \in 1..n |-> h], p>> : h \in {"aDE=", "aDI="}, p \in PwdLists}
    \cup {<<[i \in 1..m |-> "aDE="], NoPwds>> :
            m \in {n - 1, n + 1} \cap 0..MaxItems}
    \cup (IF n > 0
          THEN {<<[i \in 1..n |-> IF i = n THEN BadB64 ELSE "aDE="], NoPwds>>}
          ELSE {})

ZipInputs ==
    {<<"text/html", ZipBody("object", ZipKeys, <<"aDE=">>, "Yw==", <<"a.pdf">>, <<>>, <<>>)>>,
     <<JSON, ZipBody("malformed", {}, <<>>, "", <<>>, <<>>, <<>>)>>,
     <<JSON, ZipBody("object", ZipKeys \ {"htmls"}, <<>>, "Yw==", <<"a.pdf">>, <<>>, <<>>)>>,
     <<JSON, ZipBody("object", ZipKeys \ {"css"}, <<"aDE=">>, "", <<"a.pdf">>, <<>>, <<>>)>>,
     <<JSON, ZipBody("object", ZipKeys \ {"filenames"}, <<"aDE=">>, "Yw==", <<>>, <<>>, <<>>)>>}
    \cup UNION {{<<JSON, ZipBody("object", ZipKeys \cup l[2][1], l[1], "Yw==", fns,
                                 l[2][2], l[2][3])>> : l \in ZipLists(Len(fns))} :
                  fns \in SeqsUpTo(FileNames, MaxItems)}

\* json.loads(data.get('user_passwords', '[]'))
ListOr(body, key) == IF key \in body.keys THEN body[key] ELSE <<>>

\* `user_passwords and index < len(user_passwords) and user_passwords[index]`
\* (index is 1-based here).
NeedsEncrypt(body, i) ==
    LET ups == ListOr(body, "user_passwords") IN
    ups # <<>> /\ i <= Len(ups) /\ Truthy(ups[i])

\* `owner_passwords[index] if owner_passwords and index < len(...) else None`
OwnerFor(body, i) ==
    LET ops == ListOr(body, "owner_passwords") IN
    IF ops # <<>> /\ i <= Len(ops) THEN ops[i] ELSE None

\* ZipFile.write(filename): the entry is stored under the file's name; the
\* names of the model are relative and normalised, which zipfile keeps as is.
ArcName(name) == name

Zip(entries) == [kind |-> "zip", entries |-> entries]

\* ------------------------------------------------------------- state
\* index: loop index of zip (1-based); entries: the archive so far;
\* pdf: the bytes read back by xlsx; rc: exit status of subprocess.call,
\* which xlsx discards (-1 before the call).
NoLoc == [index |-> 0, entries |-> <<>>, pdf |-> NoBody, rc |-> -1]

Init ==
    /\ secret \in {Unset} \cup Keys
    /\ fs = [f \in Files |-> Absent]
    /\ pc = [r \in Req |-> "idle"]
    /\ req = [r \in Req |-> NoReq]
    /\ ran = [r \in Req |-> FALSE]
    /\ loc = [r \in Req |-> NoLoc]
    /\ resp = [r \in Req |-> NoResp]

\* The handler of request r returns (or raises): the response is rs.
Finish(r, rs) ==
    /\ pc' = [pc EXCEPT ![r] = "done"]
    /\ resp' = [resp EXCEPT ![r] = rs]

\* checkauth refusing the request: abort(401); neither the handler nor the
\* body of the request is touched.
Reject(r, e, h) ==
    /\ req' = [req EXCEPT ![r] = Request(e, h, "", NoReq.body)]
    /\ Finish(r, Abort401)
    /\ UNCHANGED <<secret, fs, ran, loc>>

\* checkauth calling the handler f.
Enter(r, rq) ==
    /\ req' = [req EXCEPT ![r] = rq]
    /\ ran' = [ran EXCEPT ![r] = TRUE]

\* POST /pdf, decorator included.
Generate(r) ==
    /\ pc[r] = "idle"
    /\ \E h \in Headers, in \in PdfInputs :
         IF ~CheckAuth(secret, h) THEN Reject(r, "pdf", h)
         ELSE /\ Enter(r, Request("pdf", h, in[1], in[2]))
              /\ Finish(r, GenerateResponse(in[1], in[2]))
              /\ UNCHANGED <<secret, fs, loc>>

\* POST /multiple, decorator included.
Multiple(r) ==
    /\ pc[r] = "idle"
    /\ \E h \in Headers, in \in MultipleInputs :
         IF ~CheckAuth(secret, h) THEN Reject(r, "multiple", h)
         ELSE /\ Enter(r, Request("multiple", h, in[1], in[2]))
              /\ Finish(r, MultipleResponse(in[2]))
              /\ UNCHANGED <<secret, fs, loc>>

\* POST /xlsx up to the end of `with open('input.xlsx', 'wb')`: open()
\* creates or truncates the file before data['xlsx'] is looked up and
\* decoded, so a KeyError or binascii.Error leaves it empty on disk.
XlsxWrite(r) ==
    /\ pc[r] = "idle"
    /\ \E h \in Headers, in \in XlsxInputs :
         LET ct == in[1]
             body == in[2] IN
         IF ~CheckAuth(secret, h) THEN Reject(r, "xlsx", h)
         ELSE /\ Enter(r, Request("xlsx", h, ct, body))
              /\ UNCHANGED <<secret, loc>>
              /\ IF ct # JSON \/ body.shape # "object"
                 THEN Finish(r, Error500) /\ UNCHANGED fs
                 ELSE IF "xlsx" \notin body.keys \/ ~B64Valid(body.xlsx)
                 THEN /\ fs' = [fs EXCEPT ![XlsxIn] = Empty]
                      /\ Finish(r, Error500)
                 ELSE /\ fs' = [fs EXCEPT ![XlsxIn] = Bytes(B64Decode(body.xlsx))]
                      /\ pc' = [pc EXCEPT ![r] = "x_convert"]
                      /\ UNCHANGED resp

\* subprocess.call(command): unoconv converts whatever input.xlsx holds now
\* and writes input.pdf, or fails and writes nothing; the exit status is
\* dropped.
XlsxConvert(r) ==
    /\ pc[r] = "x_convert"
    /\ \E ok \in BOOLEAN :
         IF ok /\ fs[XlsxIn].kind = "bytes" /\ fs[XlsxIn].data \in Sheets
         THEN /\ fs' = [fs EXCEPT ![XlsxOut] =
                           Converted(fs[XlsxIn].data, Get(req[r].body, "user_password"))]
              /\ loc' = [loc EXCEPT ![r].rc = 0]
         ELSE /\ loc' = [loc EXCEPT ![r].rc = 1]
              /\ UNCHANGED fs
    /\ pc' = [pc EXCEPT ![r] = "x_read"]
    /\ UNCHANGED <<secret, req, ran, resp>>

\* `with open('input.pdf', 'rb') as f: pdf = f.read()`; FileNotFoundError
\* when there is no such file.
XlsxRead(r) ==
    /\ pc[r] = "x_read"
    /\ IF fs[XlsxOut] = Absent
       THEN Finish(r, Error500) /\ UNCHANGED loc
       ELSE /\ loc' = [loc EXCEPT ![r].pdf = fs[XlsxOut]]
            /\ pc' = [pc EXCEPT ![r] = "x_cleanup"]
            /\ UNCHANGED resp
    /\ UNCHANGED <<secret, fs, req, ran>>

\* Remove input.xlsx and input.pdf if they exist, and return the response.
XlsxCleanup(r) ==
    /\ pc[r] = "x_cleanup"
    /\ fs' = [fs EXCEPT ![XlsxIn] = Absent, ![XlsxOut] = Absent]
    /\ Finish(r, Ok("application/pdf", loc[r].pdf))
    /\ UNCHANGED <<secret, req, ran, loc>>

\* POST /zip up to the first pass of the loop. With a Content-Type other
\* than application/json the empty BytesIO is returned as the archive.
ZipStart(r) ==
    /\ pc[r] = "idle"
    /\ \E h \in Headers, in \in ZipInputs :
         LET ct == in[1]
             body == in[2] IN
         IF ~CheckAuth(secret, h) THEN Reject(r, "zip", h)
         ELSE /\ Enter(r, Request("zip", h, ct, body))
              /\ UNCHANGED <<secret, fs>>
              /\ IF ct # JSON
                 THEN Finish(r, Ok("application/zip", Empty)) /\ UNCHANGED loc
                 ELSE IF \/ body.shape # "object"
                         \/ "htmls" \notin body.keys
                         \/ "css" \notin body.keys \/ ~B64Valid(body.css)
                         \/ "filenames" \notin body.keys
                 THEN Finish(r, Error500) /\ UNCHANGED loc
                 ELSE IF body.filenames = <<>>
                 THEN Finish(r, Ok("application/zip", Zip(<<>>))) /\ UNCHANGED loc
                 ELSE /\ loc' = [loc EXCEPT ![r].index = 1]
                      /\ pc' = [pc EXCEPT ![r] = "z_render"]
                      /\ UNCHANGED resp

\* One pass, lines 169-171: decode htmls[index] and write its PDF to
\* filenames[index]. IndexError when htmls is shorter than filenames.
ZipRender(r) ==
    /\ pc[r] = "z_render"
    /\ LET body == req[r].body
           i == loc[r].index IN
       IF i > Len(body.htmls) \/ ~B64Valid(body.htmls[i])
       THEN Finish(r, Error500) /\ UNCHANGED fs
       ELSE /\ fs' = [fs EXCEPT ![body.filenames[i]] = Pdf(Render(B64Decode(body.htmls[i])))]
            /\ pc' = [pc EXCEPT ![r] =
                         IF NeedsEncrypt(body, i) THEN "z_encrypt" ELSE "z_archive"]
            /\ UNCHANGED resp
    /\ UNCHANGED <<secret, req, ran, loc>>

\* Lines 173-181: read the file back, copy its pages, encrypt and rewrite
\* it. PdfFileReader raises when the file is gone, and the page copy raises
\* on a file that is already encrypted.
ZipEncrypt(r) ==
    /\ pc[r] = "z_encrypt"
    /\ LET body == req[r].body
           i == loc[r].index
           name == body.filenames[i] IN
       IF fs[name] = Absent \/ Protected(fs[name])
       THEN Finish(r, Error500) /\ UNCHANGED fs
       ELSE /\ fs' = [fs EXCEPT ![name] =
                         EncryptPdf(fs[name], body.user_passwords[i], OwnerFor(body, i))]
            /\ pc' = [pc EXCEPT ![r] = "z_archive"]
            /\ UNCHANGED resp
    /\ UNCHANGED <<secret, req, ran, loc>>

\* Lines 183-186: archive.write(filenames[index]) reads the file from disk
\* (FileNotFoundError if it is gone), then the file is removed; after the
\* last pass the archive is closed and returned.
ZipArchive(r) ==
    /\ pc[r] = "z_archive"
    /\ LET body == req[r].body
           i == loc[r].index
           name == body.filenames[i] IN
       IF fs[name] = Absent
       THEN Finish(r, Error500) /\ UNCHANGED <<fs, loc>>
       ELSE LET es == Append(loc[r].entries, [name |-> ArcName(name), data |-> fs[name]]) IN
            /\ fs' = [fs EXCEPT ![name] = Absent]
            /\ loc' = [loc EXCEPT ![r].entries = es, ![r].index = i + 1]
            /\ IF i = Len(body.filenames)
               THEN Finish(r, Ok("application/zip", Zip(es)))
               ELSE pc' = [pc EXCEPT ![r] = "z_render"] /\ UNCHANGED resp
    /\ UNCHANGED <<secret, req, ran>>

Step(r) ==
    \/ Generate(r)
    \/ Multiple(r)
    \/ XlsxWrite(r)
    \/ XlsxConvert(r)
    \/ XlsxRead(r)
    \/ XlsxCleanup(r)
    \/ ZipStart(r)
    \/ ZipRender(r)
    \/ ZipEncrypt(r)
    \/ ZipArchive(r)

\* The requests are served at the same time, in any interleaving.
Next == \E r \in Req : Step(r)

Spec == Init /\ [][Next]_vars

\* The response has been sent and the thread takes the next request; the
\* working directory stays as the last request left it.
Reset(r) ==
    /\ pc[r] = "done"
    /\ pc' = [pc EXCEPT ![r] = "idle"]
    /\ req' = [req EXCEPT ![r] = NoReq]
    /\ ran' = [ran EXCEPT ![r] = FALSE]
    /\ loc' = [loc EXCEPT ![r] = NoLoc]
    /\ resp' = [resp EXCEPT ![r] = NoResp]
    /\ UNCHANGED <<secret, fs>>

\* A server with one thread: requests are served one after the other.
NextSeq == Step("r1") \/ Reset("r1")

SpecSeq == Init /\ [][NextSeq]_vars

\* ------------------------------------------------------------- properties
Done(r) == pc[r] = "done"

\* The keys each endpoint's handler reads without a default.
RequiredKeys(e) ==
    CASE e = "pdf" -> {"html", "css"}
      [] e = "xlsx" -> {"xlsx"}
      [] e = "zip" -> {"htmls", "css", "filenames"}
      [] e = "multiple" -> {"htmls"}
      [] OTHER -> {}

Entries(b) == IF b.kind = "zip" THEN b.entries ELSE <<>>

\* C1: with a secret configured, a request to a protected endpoint whose
\* X_API_KEY header is missing or differs from the secret is answered 401
\* and its handler body never runs; a request whose header equals the secret
\* reaches the handler.
C1_GuardRejectsMissingOrWrongKey ==
    \A r \in Req :
        (secret # Unset /\ Done(r)) =>
            IF req[r].header = secret
            THEN ran[r] /\ resp[r].status # 401
            ELSE ~ran[r] /\ resp[r].status = 401

\* C2 as stated: with no secret configured, every request is let through to
\* its handler, with or without an X_API_KEY header.
C2_UnsetSecretAllowsAll ==
    \A r \in Req : (secret = Unset /\ Done(r)) => ran[r]

\* C2 as amended: with no secret configured, a request reaches its handler
\* exactly when it carries no X_API_KEY header; a request that carries the
\* header, whatever its value, is answered 401 and its handler never runs.
C2_UnsetSecretAllowsOnlyHeaderless ==
    \A r \in Req :
        (secret = Unset /\ Done(r)) =>
            /\ ran[r] <=> req[r].header = NoHeader
            /\ req[r].header # NoHeader => resp[r].status = 401

\* C2 witness: no secret configured, and a request carrying an X_API_KEY
\* header has been answered 401 without its handler running.
C2_Witness ==
    /\ secret = Unset
    /\ \E r \in Req :
         /\ Done(r) /\ req[r].header \in Keys
         /\ resp[r].status = 401 /\ ~ran[r]

\* The PDF item i of a /zip body is meant to become.
OwnItem(body, i) ==
    LET plain == Pdf(Render(B64Decode(body.htmls[i]))) IN
    IF NeedsEncrypt(body, i)
    THEN EncryptPdf(plain, body.user_passwords[i], OwnerFor(body, i))
    ELSE plain

\* C3: whatever the interleaving of concurrent /xlsx and /zip requests, a
\* successful response holds only bytes derived from the request's own input:
\* the conversion of its own sheet, the renderings of its own htmls.
C3_ResponseFromOwnInput ==
    \A r \in Req :
        (Done(r) /\ resp[r].status = 200) =>
            /\ req[r].endpoint = "xlsx" =>
                 resp[r].body = Converted(B64Decode(req[r].body.xlsx),
                                          Get(req[r].body, "user_password"))
            /\ req[r].endpoint = "zip" =>
                 \A i \in 1..Len(Entries(resp[r].body)) :
                     Entries(resp[r].body)[i].data = OwnItem(req[r].body, i)

\* C4: once every /xlsx and /zip request has finished, on the success path
\* or on a failure path, no scratch file is left on disk.
C4_NoScratchFileSurvives ==
    (\A r \in Req : pc[r] \in {"idle", "done"}) => \A f \in Files : fs[f] = Absent

\* C5: a successful /zip response holds exactly len(filenames) entries and
\* the i-th entry is named filenames[i], whether or not the body was
\* declared application/json.
C5_ArchiveMatchesFilenames ==
    \A r \in Req :
        (Done(r) /\ req[r].endpoint = "zip" /\ resp[r].status = 200) =>
            LET es == Entries(resp[r].body)
                fns == ListOr(req[r].body, "filenames") IN
            /\ Len(es) = Len(fns)
            /\ \A i \in 1..Len(es) : es[i].name = fns[i]

\* C6: /multiple answers N documents, given as an object with htmls or as a
\* top-level list, N = 0 included, with a PDF whose pages are the documents'
\* pages flattened in input order.
C6_MergedPagesInInputOrder ==
    \A r \in Req :
        (/\ Done(r) /\ ran[r] /\ req[r].endpoint = "multiple"
         /\ \/ req[r].body.shape = "list"
            \/ req[r].body.shape = "object" /\ "htmls" \in req[r].body.keys) =>
            LET hs == req[r].body.htmls IN
            /\ resp[r].status = 200
            /\ resp[r].body.kind = "pdf"
            /\ resp[r].body.pages = Flatten([i \in 1..Len(hs) |-> Render(hs[i])])

\* C7: a JSON body that is malformed or lacks a required field is answered
\* with a 4xx status on every endpoint.
C7_BadBodyIsBadRequest ==
    \A r \in Req :
        (/\ Done(r) /\ ran[r]
         /\ req[r].ctype = JSON
         /\ \/ req[r].body.shape = "malformed"
            \/ /\ req[r].body.shape = "object"
               /\ ~(RequiredKeys(req[r].endpoint) \subseteq req[r].body.keys)) =>
            resp[r].status \in 400..499

\* C8: a POST to /pdf declaring a Content-Type other than application/json
\* has its whole body rendered as HTML and is answered with that PDF,
\* Content-Type application/pdf.
C8_RawBodyRendered ==
    \A r \in Req :
        (Done(r) /\ ran[r] /\ req[r].endpoint = "pdf" /\ req[r].ctype # JSON) =>
            /\ resp[r].status = 200
            /\ resp[r].ctype = "application/pdf"
            /\ resp[r].body = Pdf(Render(req[r].body.html))

\* C9: an /xlsx request whose conversion failed (unoconv exited with failure
\* and wrote no output) is answered with an error, never with PDF bytes,
\* whatever the scratch directory holds.
C9_ConversionFailureReported ==
    \A r \in Req :
        (Done(r) /\ req[r].endpoint = "xlsx" /\ loc[r].rc = 1) =>
            resp[r].status >= 400

\* C10: a PDF returned by /pdf or /multiple is password-protected exactly
\* when the request supplied a user password, and item i of a /zip archive
\* exactly when user_passwords[i] exists and is supplied; an owner password
\* alone never encrypts.
C10_ProtectedIffUserPassword ==
    \A r \in Req :
        (Done(r) /\ resp[r].status = 200) =>
            /\ req[r].endpoint \in {"pdf", "multiple"} =>
                 (Protected(resp[r].body) <=> Truthy(Get(req[r].body, "user_password")))
            /\ req[r].endpoint = "zip" =>
                 \A i \in 1..Len(Entries(resp[r].body)) :
                     Protected(Entries(resp[r].body)[i].data)
                         <=> NeedsEncrypt(req[r].body, i)

====
